---- MODULE Spec2Model ----
(***************************************************************************)
(* State-machine model of the Guristas FOB contest bot (src/bot.py).       *)
(*                                                                         *)
(* The bot is a single-process asyncio program: a handler runs without     *)
(* interruption up to its first `await`, so every run of synchronous store *)
(* calls between two awaits is one atomic step.  A modal (EndContestModal, *)
(* DeadlineModal, SetPrizesModal) is shown by one handler and submitted in *)
(* a later, separate event; arbitrary other handlers may run in between.   *)
(*                                                                         *)
(* Optional values (a settings row that may be absent, a NULL column) are  *)
(* None == <<>> or Some(v) == <<v>>.  System names are sequences of        *)
(* one-character strings, so that normalisation is computed, not assumed.  *)
(* Time is counted in units of six hours.                                  *)
(***************************************************************************)
EXTENDS Integers, Sequences, FiniteSets, TLC

\* ---------------------------------------------------------------- bounds
\* Number of Discord members that take part.
MaxUsers == 2
\* Number of contest rows the store may hold before newcontest is cut off.
MaxContests == 2
\* The clock runs from 0 to MaxTime.
MaxTime == 2
\* EndContestModal instances that may be open at once.
MaxEndModals == 2
\* Countdown messages the channels may receive.
MaxMessages == 2
\* Number of text channels commands are run in.
MaxChannels == 2
\* SetPrizesModal instances open at one time
MaxPrizeModals == 1
\* characters of a name given to normalize_system_name
MaxNameLen == 4

\* ------------------------------------------------------- optional values
None == <<>>
Some(v) == <<v>>
ValueOf(o) == o[1]

\* ------------------------------------------------------------ characters
LowerChars == {"a", "e", "h", "o", "t", "x"}
UpperChars == {"A", "E", "H", "O", "T", "X"}
\* U+1E96 is LATIN SMALL LETTER H WITH LINE BELOW, a lower-case letter whose
\* upper-case and title-case forms are the two characters "H" and U+0331,
\* COMBINING MACRON BELOW, which has no case.
Chars == LowerChars \cup UpperChars \cup {" ", "-", "U+1E96", "U+0331"}
\* The ASCII characters among them.
AsciiChars == LowerChars \cup UpperChars \cup {" ", "-"}

\* str.upper() / str.lower() on one character
upper(c) ==
    CASE c = "a" -> "A" [] c = "e" -> "E" [] c = "h" -> "H"
      [] c = "o" -> "O" [] c = "t" -> "T" [] c = "x" -> "X"
      [] OTHER -> c

lower(c) ==
    CASE c = "A" -> "a" [] c = "E" -> "e" [] c = "H" -> "h"
      [] c = "O" -> "o" [] c = "T" -> "t" [] c = "X" -> "x"
      [] OTHER -> c

\* the title-case mapping of one character, which may be two characters
title_full(c) == IF c = "U+1E96" THEN <<"H", "U+0331">> ELSE <<upper(c)>>

isspace(c) == c = " "
iscased(c) == c \in LowerChars \cup UpperChars \cup {"U+1E96"}

\* str.strip(): drop leading and trailing whitespace
RECURSIVE lstrip(_)
lstrip(s) ==
    IF s # <<>> /\ isspace(Head(s)) THEN lstrip(Tail(s)) ELSE s

RECURSIVE rstrip(_)
rstrip(s) ==
    IF s # <<>> /\ isspace(s[Len(s)]) THEN rstrip(SubSeq(s, 1, Len(s) - 1)) ELSE s

strip(s) == rstrip(lstrip(s))

\* length of the leading run of non-space characters
RECURSIVE wordlen(_)
wordlen(s) ==
    IF s = <<>> \/ isspace(Head(s)) THEN 0 ELSE 1 + wordlen(Tail(s))

\* str.split() with no argument: the maximal runs of non-space characters
RECURSIVE split(_)
split(s) ==
    IF s = <<>> THEN <<>>
    ELSE IF isspace(Head(s)) THEN split(Tail(s))
    ELSE LET n == wordlen(s)
         IN  <<SubSeq(s, 1, n)>> \o split(SubSeq(s, n + 1, Len(s)))

\* " ".join(words)
RECURSIVE join(_)
join(words) ==
    IF words = <<>> THEN <<>>
    ELSE IF Len(words) = 1 THEN Head(words)
    ELSE Head(words) \o <<" ">> \o join(Tail(words))

\* title() that upper-cases the first character of each word and leaves the
\* other characters as they are.
title_capitalize(s) ==
    [i \in 1..Len(s) |->
        IF i > 1 /\ iscased(s[i - 1]) THEN s[i] ELSE upper(s[i])]

\* str.title(): a character is lower-cased when the character before it is
\* cased, and mapped to its title-case form otherwise (or when it is first)
RECURSIVE title_from(_, _)
title_from(s, i) ==
    IF i > Len(s) THEN <<>>
    ELSE (IF i > 1 /\ iscased(s[i - 1]) THEN <<lower(s[i])>> ELSE title_full(s[i]))
         \o title_from(s, i + 1)

title(s) == title_from(s, 1)

normalize_system_name(name) == title(join(split(strip(name))))

\* ----------------------------------------------------------- allow-list
\* Two names of the 58-name list ALLOWED_FOB_SYSTEMS_RAW: "Eha" and "Oto".
Eha == <<"E", "h", "a">>
Oto == <<"O", "t", "o">>

ALLOWED_FOB_SYSTEMS_RAW == {Eha, Oto}

ALLOWED_FOB_SYSTEMS == {normalize_system_name(name) : name \in ALLOWED_FOB_SYSTEMS_RAW}

is_allowed_fob_system(name) == normalize_system_name(name) \in ALLOWED_FOB_SYSTEMS

\* What callers type: case and whitespace variants of allowed names, and a
\* name that is not on the list.
RawSystems ==
    { Eha,
      <<" ", "e", "H", "A", " ">>,
      <<"o", "t", " ", "o">>,
      <<"o", "t", "O">> }

\* ---------------------------------------------------------------- state
VARIABLES
    contests,         \* table contests: row id |-> [winner_user_id, winner_system]
    contest_entries,  \* table contest_entries: set of [contest_id, user_id, system_name]
    settings,         \* table settings, one field per key
    now,              \* datetime.now(UTC)
    end_modals,       \* contest id |-> EndContestModal instances shown for it, not yet submitted
    deadline_modals,  \* DeadlineModal instances shown and not yet submitted
    prize_modals,     \* SetPrizesModal instances shown and not yet submitted
    is_running,       \* update_countdown.is_running(): the periodic task is scheduled
    restart_pending,  \* update_countdown.restart() was called and the restarted task has not run yet
    messages,         \* countdown messages sent: id |-> [channel_id, form]
    response          \* what the last handler run answered

vars == <<contests, contest_entries, settings, now, end_modals, deadline_modals, prize_modals, is_running, restart_pending,
          messages, response>>

Users == 1..MaxUsers
Channels == 1..MaxChannels
\* DISCORD_CHANNEL_ID, the fallback countdown channel
CHANNEL_ID == 1
\* timedelta(hours=6), in units of six hours
CST_OFFSET == 1

\* An interaction carries the caller, the caller's manage_guild permission
\* and the channel the command was run in.
Interactions == [user : Users, manage_guild : BOOLEAN, channel_id : Channels]

is_contest_admin(interaction) == interaction.manage_guild

\* The callers who run their commands in the contest channel.
ContestChannelCallers ==
    {interaction \in Interactions : interaction.channel_id = CHANNEL_ID}

\* Deadline text typed by an admin: a timestamp, or text strptime rejects.
DeadlineInputs == {None} \cup {Some(t) : t \in 0..(MaxTime + 1)}
\* /setdeadline takes local (CST) time, CST_OFFSET behind UTC.
SetDeadlineInputs == {None} \cup {Some(t) : t \in 0..MaxTime}

\* The answer of a handler run: the command, the caller where the answer
\* depends on who called (0 otherwise), and the reason given.
Resp(cmd, user, result) == [cmd |-> cmd, user |-> user, result |-> result]

\* ------------------------------------------------------- store helpers
get_current_contest_id == settings.current_contest_id

CurrentEntries == {e \in contest_entries : e.contest_id = get_current_contest_id}

get_user_entry(user_id) ==
    LET rows == {e \in CurrentEntries : e.user_id = user_id}
    IN  IF rows = {} THEN None ELSE Some((CHOOSE e \in rows : TRUE).system_name)

\* is_system_taken answering "no" whatever the table holds.
is_system_taken_never(system_name) == FALSE

is_system_taken(system_name) ==
    \E e \in CurrentEntries : e.system_name = system_name

\* A table created without the UNIQUE (contest_id, system_name) constraint.
violates_unique_never(table, contest_id, user_id, system_name) == FALSE

\* The UNIQUE (contest_id, system_name) constraint of the table rejects a
\* write that would give a second user's row of the contest the same name.
violates_unique(table, contest_id, user_id, system_name) ==
    \E e \in table :
        /\ e.contest_id = contest_id
        /\ e.system_name = system_name
        /\ e.user_id # user_id

unique_violation(contest_id, user_id, system_name) ==
    violates_unique(contest_entries, contest_id, user_id, system_name)

\* set_user_entry writing under the id of the first contest instead of
\* the id read from current_contest_id.
set_user_entry_first_contest(user_id, system_name) ==
    LET contest_id == 1
    IN  IF unique_violation(contest_id, user_id, system_name)
        THEN [raised |-> TRUE, table |-> contest_entries]
        ELSE [raised |-> FALSE,
              table  |-> {e \in contest_entries :
                             ~(e.contest_id = contest_id /\ e.user_id = user_id)}
                         \cup {[contest_id |-> contest_id, user_id |-> user_id,
                                system_name |-> system_name]}]

\* INSERT ... ON CONFLICT(contest_id, user_id) DO UPDATE: raised tells whether
\* sqlite3.IntegrityError is raised, table is the table afterwards
\* (entered_at, which no check reads, is left out).
set_user_entry(user_id, system_name) ==
    LET contest_id == get_current_contest_id
    IN  IF unique_violation(contest_id, user_id, system_name)
        THEN [raised |-> TRUE, table |-> contest_entries]
        ELSE [raised |-> FALSE,
              table  |-> {e \in contest_entries :
                             ~(e.contest_id = contest_id /\ e.user_id = user_id)}
                         \cup {[contest_id |-> contest_id, user_id |-> user_id,
                                system_name |-> system_name]}]

is_contest_open == settings.contest_open = "1"

is_winner_picked == settings.winner_picked = "1"

get_fob_system == settings.fob_system

get_entry_deadline == settings.entry_deadline

\* is_past_deadline comparing with > instead of >=.
is_past_deadline_strict ==
    IF get_entry_deadline = None THEN FALSE ELSE now > ValueOf(get_entry_deadline)

is_past_deadline ==
    IF get_entry_deadline = None THEN FALSE ELSE now >= ValueOf(get_entry_deadline)

get_countdown_message_id == settings.countdown_message_id

get_countdown_channel_id == settings.countdown_channel_id

get_total_entries_for_current_contest == Cardinality(CurrentEntries)

get_current_winner_info ==
    IF get_current_contest_id \in DOMAIN contests
    THEN <<contests[get_current_contest_id].winner_user_id,
           contests[get_current_contest_id].winner_system>>
    ELSE <<None, None>>

\* ------------------------------------------------------------- init_db
NewContestRow == [winner_user_id |-> None, winner_system |-> None]

Init ==
    /\ contests = <<NewContestRow>>
    /\ contest_entries = {}
    /\ settings = [current_contest_id   |-> 1,
                   contest_open         |-> "1",
                   winner_picked        |-> "0",
                   fob_system           |-> None,
                   entry_deadline       |-> None,
                   countdown_message_id |-> None,
                   countdown_channel_id |-> None,
                   prizes_text          |-> None]
    /\ now = 0
    /\ end_modals = <<0>>
    /\ deadline_modals = {}
    /\ prize_modals = 0
    /\ is_running = TRUE
    /\ restart_pending = FALSE
    /\ messages = <<>>
    /\ response = Resp("init_db", 0, "ok")

\* The row of the settings table with key current_contest_id, as the SELECT
\* of init_db fetches it.
current_contest_id_row ==
    IF settings.current_contest_id \in 1..Len(contests)
    THEN Some(settings.current_contest_id)
    ELSE None

\* The store after the bootstrap branch of init_db: one more contest row,
\* which becomes the current contest, open and without a winner.
bootstrap_store ==
    [contests |-> Append(contests, NewContestRow),
     settings |-> [settings EXCEPT !.current_contest_id = Len(contests) + 1,
                                   !.contest_open = "1",
                                   !.winner_picked = "0"]]

\* init_db running its bootstrap branch whether or not current_contest_id
\* is stored.
init_db_always_bootstraps ==
    /\ Len(contests) < MaxContests
    /\ contests' = bootstrap_store.contests
    /\ settings' = bootstrap_store.settings
    /\ end_modals' = [i \in 1..(Len(contests) + 1) |-> 0]
    /\ deadline_modals' = {}
    /\ prize_modals' = 0
    /\ is_running' = TRUE
    /\ restart_pending' = FALSE
    /\ response' = Resp("init_db", 0, "ok")
    /\ UNCHANGED <<contest_entries, now, messages>>

\* The process is restarted: the module is loaded again and runs init_db on
\* the store of the previous run. The tables exist (CREATE TABLE IF NOT
\* EXISTS leaves them alone) and the bootstrap branch runs only when no
\* current_contest_id is stored. The new process has none of the modals of
\* the previous one, and setup_hook starts the periodic task.
init_db ==
    /\ IF current_contest_id_row = None
       THEN /\ Len(contests) < MaxContests
            /\ contests' = bootstrap_store.contests
            /\ settings' = bootstrap_store.settings
       ELSE UNCHANGED <<contests, settings>>
    /\ end_modals' = [i \in 1..Len(contests') |-> 0]
    /\ deadline_modals' = {}
    /\ prize_modals' = 0
    /\ is_running' = TRUE
    /\ restart_pending' = FALSE
    /\ response' = Resp("init_db", 0, "ok")
    /\ UNCHANGED <<contest_entries, now, messages>>

\* --------------------------------------------------------------- /enter
\* enter_check without the check that the caller has no entry yet.
enter_check_no_duplicate(user_id, system_norm) ==
    IF ~is_allowed_fob_system(system_norm) THEN "InvalidSystem"
    ELSE IF ~is_contest_open THEN "ContestClosed"
    ELSE IF is_past_deadline THEN "DeadlinePassed"
    ELSE IF is_system_taken(system_norm) THEN "SystemTaken"
    ELSE "Passed"

\* enter_check asking for the deadline before it asks whether the contest
\* is open.
enter_check_deadline_first(user_id, system_norm) ==
    IF ~is_allowed_fob_system(system_norm) THEN "InvalidSystem"
    ELSE IF is_past_deadline THEN "DeadlinePassed"
    ELSE IF ~is_contest_open THEN "ContestClosed"
    ELSE IF get_user_entry(user_id) # None THEN "DuplicateUser"
    ELSE IF is_system_taken(system_norm) THEN "SystemTaken"
    ELSE "Passed"

\* The first check of enter that fails, in the order the handler makes them.
enter_check(user_id, system_norm) ==
    IF ~is_allowed_fob_system(system_norm) THEN "InvalidSystem"
    ELSE IF ~is_contest_open THEN "ContestClosed"
    ELSE IF is_past_deadline THEN "DeadlinePassed"
    ELSE IF get_user_entry(user_id) # None THEN "DuplicateUser"
    ELSE IF is_system_taken(system_norm) THEN "SystemTaken"
    ELSE "Passed"

\* enter without its two uniqueness checks, writing with a plain INSERT into a
\* table that has no constraint.
enter_unguarded(interaction, system) ==
    LET user_id     == interaction.user
        system_norm == normalize_system_name(system)
        result      == IF ~is_allowed_fob_system(system_norm) THEN "InvalidSystem"
                       ELSE IF ~is_contest_open THEN "ContestClosed"
                       ELSE IF is_past_deadline THEN "DeadlinePassed"
                       ELSE "Success"
    IN  /\ contest_entries' =
              IF result = "Success"
              THEN contest_entries \cup {[contest_id |-> get_current_contest_id,
                                          user_id |-> user_id,
                                          system_name |-> system_norm]}
              ELSE contest_entries
        /\ response' = Resp("enter", user_id, result)
        /\ UNCHANGED <<contests, settings, now, end_modals, deadline_modals, prize_modals, is_running, restart_pending, messages>>

\* enter storing the name as the caller typed it instead of its normal form.
enter_stores_raw(interaction, system) ==
    LET user_id     == interaction.user
        system_norm == normalize_system_name(system)
        check       == enter_check(user_id, system_norm)
        write       == set_user_entry(user_id, system)
        result      == IF check # "Passed" THEN check
                       ELSE IF write.raised THEN "UnhandledError"
                       ELSE "Success"
    IN  /\ contest_entries' = IF result = "Success" THEN write.table ELSE contest_entries
        /\ response' = Resp("enter", user_id, result)
        /\ UNCHANGED <<contests, settings, now, end_modals, deadline_modals, prize_modals, is_running, restart_pending, messages>>

\* An exception of set_user_entry is not caught by enter: the caller gets
\* no answer of the handler ("UnhandledError").
enter(interaction, system) ==
    LET user_id     == interaction.user
        system_norm == normalize_system_name(system)
        check       == enter_check(user_id, system_norm)
        write       == set_user_entry(user_id, system_norm)
        result      == IF check # "Passed" THEN check
                       ELSE IF write.raised THEN "UnhandledError"
                       ELSE "Success"
    IN  /\ contest_entries' = IF result = "Success" THEN write.table ELSE contest_entries
        /\ response' = Resp("enter", user_id, result)
        /\ UNCHANGED <<contests, settings, now, end_modals, deadline_modals, prize_modals, is_running, restart_pending, messages>>

\* INSERT ... ON CONFLICT(contest_id, user_id) DO UPDATE on a given table.
upsert_row(table, contest_id, user_id, system_name) ==
    {e \in table : ~(e.contest_id = contest_id /\ e.user_id = user_id)}
        \cup {[contest_id |-> contest_id, user_id |-> user_id,
               system_name |-> system_name]}

\* A run of enter whose checks pass and whose write comes after the write of
\* another connection to the database file: that connection commits the
\* entry of other_user for other_system, which the table accepts, after the
\* checks of this run and before its set_user_entry. The UNIQUE
\* (contest_id, system_name) constraint then rejects the write of this run
\* when the name is the same; sqlite3.IntegrityError is logged by with_db,
\* raised again and caught nowhere in enter.
enter_racing(interaction, system, other_user, other_system) ==
    LET user_id     == interaction.user
        system_norm == normalize_system_name(system)
        contest_id  == get_current_contest_id
        landed      == upsert_row(contest_entries, contest_id, other_user, other_system)
        raised      == violates_unique(landed, contest_id, user_id, system_norm)
    IN  /\ enter_check(user_id, system_norm) = "Passed"
        /\ other_system \in ALLOWED_FOB_SYSTEMS
        /\ ~unique_violation(contest_id, other_user, other_system)
        /\ contest_entries' =
              IF raised THEN landed
              ELSE upsert_row(landed, contest_id, user_id, system_norm)
        /\ response' = Resp("enter", user_id,
                            IF raised THEN "UnhandledError" ELSE "Success")
        /\ UNCHANGED <<contests, settings, now, end_modals, deadline_modals, prize_modals, is_running, restart_pending, messages>>

\* ---------------------------------------------------------- /endcontest
RECURSIVE Sum(_)
Sum(counts) == IF counts = <<>> THEN 0 ELSE Head(counts) + Sum(Tail(counts))

OpenEndModals == Sum(end_modals)

\* endcontest refusing once the entry deadline has passed.
endcontest_deadline_blocks(interaction) ==
    LET contest_id == get_current_contest_id
        count  == Cardinality({e \in contest_entries : e.contest_id = contest_id})
        result == IF ~is_contest_admin(interaction) THEN "PermissionDenied"
                  ELSE IF is_winner_picked THEN "AlreadyHasWinner"
                  ELSE IF ~is_contest_open THEN "AlreadyClosed"
                  ELSE IF is_past_deadline THEN "DeadlinePassed"
                  ELSE IF count = 0 THEN "NoEntries"
                  ELSE "Modal"
    IN  /\ result = "Modal" => OpenEndModals < MaxEndModals
        /\ end_modals' = IF result = "Modal"
                         THEN [end_modals EXCEPT ![contest_id] = @ + 1]
                         ELSE end_modals
        /\ response' = Resp("endcontest", 0, result)
        /\ UNCHANGED <<contests, contest_entries, settings, now, deadline_modals, prize_modals, is_running, restart_pending, messages>>

\* The command: four checks, then the modal is shown with the contest id
\* read at that moment.
endcontest(interaction) ==
    LET contest_id == get_current_contest_id
        count  == Cardinality({e \in contest_entries : e.contest_id = contest_id})
        result == IF ~is_contest_admin(interaction) THEN "PermissionDenied"
                  ELSE IF is_winner_picked THEN "AlreadyHasWinner"
                  ELSE IF ~is_contest_open THEN "AlreadyClosed"
                  ELSE IF count = 0 THEN "NoEntries"
                  ELSE "Modal"
    IN  /\ result = "Modal" => OpenEndModals < MaxEndModals
        /\ end_modals' = IF result = "Modal"
                         THEN [end_modals EXCEPT ![contest_id] = @ + 1]
                         ELSE end_modals
        /\ response' = Resp("endcontest", 0, result)
        /\ UNCHANGED <<contests, contest_entries, settings, now, deadline_modals, prize_modals, is_running, restart_pending, messages>>

\* on_submit choosing the winner among all entries of the contest, the
\* system_name condition of the query left out.
EndContestModal_on_submit_any_entry(contest_id, fob_system_input) ==
    LET system_norm == normalize_system_name(fob_system_input)
        rows == {e \in contest_entries : e.contest_id = contest_id}
    IN  /\ end_modals[contest_id] > 0
        /\ end_modals' = [end_modals EXCEPT ![contest_id] = @ - 1]
        /\ IF ~is_allowed_fob_system(system_norm)
           THEN /\ response' = Resp("endcontest_submit", 0, "InvalidSystem")
                /\ UNCHANGED <<contests, settings>>
           ELSE IF rows = {}
           THEN /\ settings' = [settings EXCEPT !.contest_open = "0",
                                                !.fob_system = Some(system_norm)]
                /\ response' = Resp("endcontest_submit", 0, "NoWinner")
                /\ UNCHANGED contests
           ELSE \E row \in rows :
                /\ settings' = [settings EXCEPT !.contest_open = "0",
                                                !.fob_system = Some(system_norm),
                                                !.winner_picked = "1"]
                /\ contests' = [contests EXCEPT ![contest_id] =
                                   [winner_user_id |-> Some(row.user_id),
                                    winner_system  |-> Some(system_norm)]]
                /\ response' = Resp("endcontest_submit", 0, "Winner")
        /\ UNCHANGED <<contest_entries, now, deadline_modals, prize_modals, is_running, restart_pending, messages>>

\* on_submit calling set_contest_open(False) before the allow-list check.
EndContestModal_on_submit_closes_first(contest_id, fob_system_input) ==
    LET system_norm == normalize_system_name(fob_system_input)
        rows == {e \in contest_entries :
                    e.contest_id = contest_id /\ e.system_name = system_norm}
    IN  /\ end_modals[contest_id] > 0
        /\ end_modals' = [end_modals EXCEPT ![contest_id] = @ - 1]
        /\ IF ~is_allowed_fob_system(system_norm)
           THEN /\ settings' = [settings EXCEPT !.contest_open = "0"]
                /\ response' = Resp("endcontest_submit", 0, "InvalidSystem")
                /\ UNCHANGED contests
           ELSE IF rows = {}
           THEN /\ settings' = [settings EXCEPT !.contest_open = "0",
                                                !.fob_system = Some(system_norm)]
                /\ response' = Resp("endcontest_submit", 0, "NoWinner")
                /\ UNCHANGED contests
           ELSE \E row \in rows :
                /\ settings' = [settings EXCEPT !.contest_open = "0",
                                                !.fob_system = Some(system_norm),
                                                !.winner_picked = "1"]
                /\ contests' = [contests EXCEPT ![contest_id] =
                                   [winner_user_id |-> Some(row.user_id),
                                    winner_system  |-> Some(system_norm)]]
                /\ response' = Resp("endcontest_submit", 0, "Winner")
        /\ UNCHANGED <<contest_entries, now, deadline_modals, prize_modals, is_running, restart_pending, messages>>

\* on_submit writing the winner to the row of the current contest instead
\* of the row of the modal's contest.
EndContestModal_on_submit_current_row(contest_id, fob_system_input) ==
    LET system_norm == normalize_system_name(fob_system_input)
        rows == {e \in contest_entries :
                    e.contest_id = contest_id /\ e.system_name = system_norm}
    IN  /\ end_modals[contest_id] > 0
        /\ end_modals' = [end_modals EXCEPT ![contest_id] = @ - 1]
        /\ IF ~is_allowed_fob_system(system_norm)
           THEN /\ response' = Resp("endcontest_submit", 0, "InvalidSystem")
                /\ UNCHANGED <<contests, settings>>
           ELSE IF rows = {}
           THEN /\ settings' = [settings EXCEPT !.contest_open = "0",
                                                !.fob_system = Some(system_norm)]
                /\ response' = Resp("endcontest_submit", 0, "NoWinner")
                /\ UNCHANGED contests
           ELSE \E row \in rows :
                /\ settings' = [settings EXCEPT !.contest_open = "0",
                                                !.fob_system = Some(system_norm),
                                                !.winner_picked = "1"]
                /\ contests' = [contests EXCEPT ![get_current_contest_id] =
                                   [winner_user_id |-> Some(row.user_id),
                                    winner_system  |-> Some(system_norm)]]
                /\ response' = Resp("endcontest_submit", 0, "Winner")
        /\ UNCHANGED <<contest_entries, now, deadline_modals, prize_modals, is_running, restart_pending, messages>>

\* EndContestModal.on_submit for a modal shown for contest_id: no state is
\* read again; the entries searched and the contest row updated are those of
\* the modal's contest id.
EndContestModal_on_submit(contest_id, fob_system_input) ==
    LET system_norm == normalize_system_name(fob_system_input)
        rows == {e \in contest_entries :
                    e.contest_id = contest_id /\ e.system_name = system_norm}
    IN  /\ end_modals[contest_id] > 0
        /\ end_modals' = [end_modals EXCEPT ![contest_id] = @ - 1]
        /\ IF ~is_allowed_fob_system(system_norm)
           THEN /\ response' = Resp("endcontest_submit", 0, "InvalidSystem")
                /\ UNCHANGED <<contests, settings>>
           ELSE IF rows = {}
           THEN /\ settings' = [settings EXCEPT !.contest_open = "0",
                                                !.fob_system = Some(system_norm)]
                /\ response' = Resp("endcontest_submit", 0, "NoWinner")
                /\ UNCHANGED contests
           ELSE \E row \in rows :   \* random.choice(rows)
                /\ settings' = [settings EXCEPT !.contest_open = "0",
                                                !.fob_system = Some(system_norm),
                                                !.winner_picked = "1"]
                /\ contests' = [contests EXCEPT ![contest_id] =
                                   [winner_user_id |-> Some(row.user_id),
                                    winner_system  |-> Some(system_norm)]]
                /\ response' = Resp("endcontest_submit", 0, "Winner")
        /\ UNCHANGED <<contest_entries, now, deadline_modals, prize_modals, is_running, restart_pending, messages>>

\* --------------------------------------------------------- /opencontest
\* opencontest clearing fob_system when it reopens the contest.
opencontest_clears_fob(interaction) ==
    LET result == IF ~is_contest_admin(interaction) THEN "PermissionDenied"
                  ELSE IF is_winner_picked THEN "AlreadyHasWinner"
                  ELSE IF is_contest_open THEN "AlreadyOpen"
                  ELSE "Reopened"
    IN  /\ settings' = IF result = "Reopened"
                       THEN [settings EXCEPT !.contest_open = "1", !.fob_system = Some(<<>>)]
                       ELSE settings
        /\ response' = Resp("opencontest", 0, result)
        /\ UNCHANGED <<contests, contest_entries, now, end_modals, deadline_modals, prize_modals, is_running, restart_pending, messages>>

\* opencontest without the check of winner_picked.
opencontest_ignores_winner(interaction) ==
    LET result == IF ~is_contest_admin(interaction) THEN "PermissionDenied"
                  ELSE IF is_contest_open THEN "AlreadyOpen"
                  ELSE "Reopened"
    IN  /\ settings' = IF result = "Reopened"
                       THEN [settings EXCEPT !.contest_open = "1"]
                       ELSE settings
        /\ response' = Resp("opencontest", 0, result)
        /\ UNCHANGED <<contests, contest_entries, now, end_modals, deadline_modals, prize_modals, is_running, restart_pending, messages>>

opencontest(interaction) ==
    LET result == IF ~is_contest_admin(interaction) THEN "PermissionDenied"
                  ELSE IF is_winner_picked THEN "AlreadyHasWinner"
                  ELSE IF is_contest_open THEN "AlreadyOpen"
                  ELSE "Reopened"
    IN  /\ settings' = IF result = "Reopened"
                       THEN [settings EXCEPT !.contest_open = "1"]
                       ELSE settings
        /\ response' = Resp("opencontest", 0, result)
        /\ UNCHANGED <<contests, contest_entries, now, end_modals, deadline_modals, prize_modals, is_running, restart_pending, messages>>

\* ---------------------------------------------------------- /newcontest
\* newcontest refusing, as opencontest does, once a winner is picked.
newcontest_refuses_after_winner(interaction) ==
    LET new_contest_id == Len(contests) + 1
    IN  IF ~is_contest_admin(interaction) \/ is_winner_picked
        THEN /\ response' = Resp("newcontest", 0,
                                 IF ~is_contest_admin(interaction)
                                 THEN "PermissionDenied" ELSE "AlreadyHasWinner")
             /\ UNCHANGED <<contests, settings, deadline_modals, prize_modals, is_running, restart_pending>>
             /\ UNCHANGED <<contest_entries, now, end_modals, messages>>
        ELSE /\ Len(contests) < MaxContests
             /\ contests' = Append(contests, NewContestRow)
             /\ settings' = [settings EXCEPT !.fob_system = Some(<<>>),
                                             !.entry_deadline = None,
                                             !.countdown_message_id = None,
                                             !.countdown_channel_id = None,
                                             !.current_contest_id = new_contest_id,
                                             !.contest_open = "1",
                                             !.winner_picked = "0"]
             /\ deadline_modals' = deadline_modals \cup
                   {[new_contest_id |-> new_contest_id,
                     channel_id |-> interaction.channel_id]}
             /\ end_modals' = Append(end_modals, 0)
             /\ response' = Resp("newcontest", 0, "Started")
             /\ UNCHANGED <<contest_entries, now, prize_modals, is_running, restart_pending, messages>>

\* newcontest without the two DELETEs of entry_deadline and
\* countdown_message_id.
newcontest_keeps_countdown(interaction) ==
    LET new_contest_id == Len(contests) + 1
    IN  IF ~is_contest_admin(interaction)
        THEN /\ response' = Resp("newcontest", 0, "PermissionDenied")
             /\ UNCHANGED <<contests, settings, deadline_modals, prize_modals, is_running, restart_pending>>
             /\ UNCHANGED <<contest_entries, now, end_modals, messages>>
        ELSE /\ Len(contests) < MaxContests
             /\ contests' = Append(contests, NewContestRow)
             /\ settings' = [settings EXCEPT !.fob_system = Some(<<>>),
                                             !.countdown_channel_id = None,
                                             !.current_contest_id = new_contest_id,
                                             !.contest_open = "1",
                                             !.winner_picked = "0"]
             /\ deadline_modals' = deadline_modals \cup
                   {[new_contest_id |-> new_contest_id,
                     channel_id |-> interaction.channel_id]}
             /\ end_modals' = Append(end_modals, 0)
             /\ response' = Resp("newcontest", 0, "Started")
             /\ UNCHANGED <<contest_entries, now, prize_modals, is_running, restart_pending, messages>>

\* newcontest without the write of current_contest_id.
newcontest_keeps_current(interaction) ==
    LET new_contest_id == Len(contests) + 1
    IN  IF ~is_contest_admin(interaction)
        THEN /\ response' = Resp("newcontest", 0, "PermissionDenied")
             /\ UNCHANGED <<contests, settings, deadline_modals, prize_modals, is_running, restart_pending>>
             /\ UNCHANGED <<contest_entries, now, end_modals, messages>>
        ELSE /\ Len(contests) < MaxContests
             /\ contests' = Append(contests, NewContestRow)
             /\ settings' = [settings EXCEPT !.fob_system = Some(<<>>),
                                             !.entry_deadline = None,
                                             !.countdown_message_id = None,
                                             !.countdown_channel_id = None,
                                             !.contest_open = "1",
                                             !.winner_picked = "0"]
             /\ deadline_modals' = deadline_modals \cup
                   {[new_contest_id |-> new_contest_id,
                     channel_id |-> interaction.channel_id]}
             /\ end_modals' = Append(end_modals, 0)
             /\ response' = Resp("newcontest", 0, "Started")
             /\ UNCHANGED <<contest_entries, now, prize_modals, is_running, restart_pending, messages>>

\* One transaction: a new contests row (AUTOINCREMENT id), the settings
\* reset, then the DeadlineModal is shown.
newcontest(interaction) ==
    LET new_contest_id == Len(contests) + 1
    IN  IF ~is_contest_admin(interaction)
        THEN /\ response' = Resp("newcontest", 0, "PermissionDenied")
             /\ UNCHANGED <<contests, settings, deadline_modals, prize_modals, is_running, restart_pending>>
             /\ UNCHANGED <<contest_entries, now, end_modals, messages>>
        ELSE /\ Len(contests) < MaxContests
             /\ contests' = Append(contests, NewContestRow)
             /\ settings' = [settings EXCEPT !.fob_system = Some(<<>>),
                                             !.entry_deadline = None,
                                             !.countdown_message_id = None,
                                             !.countdown_channel_id = None,
                                             !.current_contest_id = new_contest_id,
                                             !.contest_open = "1",
                                             !.winner_picked = "0"]
             /\ deadline_modals' = deadline_modals \cup
                   {[new_contest_id |-> new_contest_id,
                     channel_id |-> interaction.channel_id]}
             /\ end_modals' = Append(end_modals, 0)
             /\ response' = Resp("newcontest", 0, "Started")
             /\ UNCHANGED <<contest_entries, now, prize_modals, is_running, restart_pending, messages>>

\* The statements newcontest executes on its connection before it commits,
\* in their order: the store after the k-th of them, given the store
\* before it. The last one is the commit, which writes nothing itself.
NewContestStatements == 10

newcontest_execute(k, store) ==
    CASE k = 1 -> [store EXCEPT !.settings.contest_open = "0"]
      [] k = 2 -> [store EXCEPT !.contests = Append(@, NewContestRow)]
      [] k = 3 -> [store EXCEPT !.settings.fob_system = Some(<<>>)]
      [] k = 4 -> [store EXCEPT !.settings.entry_deadline = None]
      [] k = 5 -> [store EXCEPT !.settings.countdown_message_id = None]
      [] k = 6 -> [store EXCEPT !.settings.countdown_channel_id = None]
      [] k = 7 -> [store EXCEPT !.settings.current_contest_id = Len(store.contests)]
      [] k = 8 -> [store EXCEPT !.settings.contest_open = "1"]
      [] k = 9 -> [store EXCEPT !.settings.winner_picked = "0"]
      [] OTHER -> store

\* The store as the connection sees it after statements 1..k.
RECURSIVE newcontest_executed(_, _)
newcontest_executed(k, store) ==
    IF k = 0 THEN store
    ELSE newcontest_execute(k, newcontest_executed(k - 1, store))

\* A connection that keeps what it has executed when it is rolled back.
rollback_keeps_writes(committed, pending) == pending

\* conn.rollback(): the store is the last committed one again.
rollback(committed, pending) == committed

\* newcontest when statement number `failing` raises sqlite3.Error: the
\* statements before it have been executed in the transaction, the handler
\* rolls back, reports the failure and shows no modal.
newcontest_failing(interaction, failing) ==
    LET committed == [contests |-> contests, settings |-> settings]
        pending   == newcontest_executed(failing - 1, committed)
        store     == rollback(committed, pending)
    IN  /\ is_contest_admin(interaction)
        /\ failing \in 1..NewContestStatements
        /\ contests' = store.contests
        /\ settings' = store.settings
        /\ response' = Resp("newcontest", 0, "DatabaseError")
        /\ UNCHANGED <<contest_entries, now, end_modals, deadline_modals, prize_modals, is_running, restart_pending, messages>>

\* ------------------------------------------------- countdown messages
\* channel.fetch_message(message_id) finds the message when it was sent to
\* that channel and has not been deleted; otherwise discord.NotFound.
fetch_message(channel_id, message_id) ==
    /\ message_id \in 1..Len(messages)
    /\ messages[message_id].channel_id = channel_id
    /\ messages[message_id].form # "deleted"

\* channel.send(embed=embed): the new message gets the next id
channel_send(channel_id) == Append(messages, [channel_id |-> channel_id, form |-> "live"])

message_edit(message_id, form) == [messages EXCEPT ![message_id].form = form]

\* The countdown message exists and is deleted by somebody in the channel.
message_deleted_by_user(message_id) ==
    /\ message_id \in 1..Len(messages)
    /\ messages[message_id].form # "deleted"
    /\ messages' = message_edit(message_id, "deleted")
    /\ UNCHANGED <<contests, contest_entries, settings, now, end_modals,
                   deadline_modals, prize_modals, is_running, restart_pending, response>>

\* update_countdown closing the contest when it finds the deadline reached.
update_countdown_closes_contest ==
    LET deadline   == get_entry_deadline
        channel_id == IF get_countdown_channel_id # None
                      THEN ValueOf(get_countdown_channel_id) ELSE CHANNEL_ID
        message_id == get_countdown_message_id
        found      == message_id # None /\ fetch_message(channel_id, ValueOf(message_id))
        new_id     == Len(messages) + 1
    IN  /\ is_running
        /\ IF deadline = None
           THEN /\ response' = Resp("update_countdown", 0, "NoDeadline")
                /\ UNCHANGED <<settings, messages>>
           ELSE IF now >= ValueOf(deadline)
           THEN IF message_id = None
                THEN /\ response' = Resp("update_countdown", 0, "Dormant")
                     /\ UNCHANGED <<settings, messages>>
                ELSE IF found
                THEN /\ messages' = message_edit(ValueOf(message_id), "terminal")
                     /\ settings' = [settings EXCEPT !.countdown_message_id = None,
                                                     !.contest_open = "0"]
                     /\ response' = Resp("update_countdown", 0, "Terminal")
                ELSE /\ response' = Resp("update_countdown", 0, "FinalEditFailed")
                     /\ UNCHANGED <<settings, messages>>
           ELSE IF found
           THEN /\ messages' = message_edit(ValueOf(message_id), "live")
                /\ response' = Resp("update_countdown", 0, "Edited")
                /\ UNCHANGED settings
           ELSE /\ Len(messages) < MaxMessages
                /\ messages' = channel_send(channel_id)
                /\ settings' = [settings EXCEPT !.countdown_message_id = Some(new_id)]
                /\ response' = Resp("update_countdown", 0, "Posted")
        /\ UNCHANGED <<contests, contest_entries, now, end_modals, deadline_modals, prize_modals, is_running>>
        /\ restart_pending' = FALSE

\* One run of the periodic task in which no call raises.
update_countdown ==
    LET deadline   == get_entry_deadline
        channel_id == IF get_countdown_channel_id # None
                      THEN ValueOf(get_countdown_channel_id) ELSE CHANNEL_ID
        message_id == get_countdown_message_id
        found      == message_id # None /\ fetch_message(channel_id, ValueOf(message_id))
        new_id     == Len(messages) + 1
    IN  /\ is_running
        /\ IF deadline = None
           THEN /\ response' = Resp("update_countdown", 0, "NoDeadline")
                /\ UNCHANGED <<settings, messages>>
           ELSE IF now >= ValueOf(deadline)
           THEN IF message_id = None
                THEN /\ response' = Resp("update_countdown", 0, "Dormant")
                     /\ UNCHANGED <<settings, messages>>
                ELSE IF found
                THEN /\ messages' = message_edit(ValueOf(message_id), "terminal")
                     /\ settings' = [settings EXCEPT !.countdown_message_id = None]
                     /\ response' = Resp("update_countdown", 0, "Terminal")
                ELSE /\ response' = Resp("update_countdown", 0, "FinalEditFailed")
                     /\ UNCHANGED <<settings, messages>>
           ELSE IF found
           THEN /\ messages' = message_edit(ValueOf(message_id), "live")
                /\ response' = Resp("update_countdown", 0, "Edited")
                /\ UNCHANGED settings
           ELSE /\ Len(messages) < MaxMessages
                /\ messages' = channel_send(channel_id)
                /\ settings' = [settings EXCEPT !.countdown_message_id = Some(new_id)]
                /\ response' = Resp("update_countdown", 0, "Posted")
        /\ UNCHANGED <<contests, contest_entries, now, end_modals, deadline_modals, prize_modals, is_running>>
        /\ restart_pending' = FALSE

\* The calls of a run that may raise: a settings read or write
\* (sqlite3.Error) and a Discord request (an HTTPException other than
\* NotFound).
Faults == {"store_read", "http", "store_write"}

\* What a run does up to the call that raises: reached tells whether the run
\* gets to such a call at all, caught whether the inner handler for
\* HTTPException takes the exception, sent the messages afterwards.
raising_run(fault) ==
    LET deadline   == get_entry_deadline
        channel_id == IF get_countdown_channel_id # None
                      THEN ValueOf(get_countdown_channel_id) ELSE CHANNEL_ID
        message_id == get_countdown_message_id
        found      == message_id # None /\ fetch_message(channel_id, ValueOf(message_id))
        past       == deadline # None /\ now >= ValueOf(deadline)
    IN  IF fault = "store_read"
        THEN [reached |-> TRUE, caught |-> FALSE, sent |-> messages]
        ELSE IF fault = "http"
        THEN [reached |-> deadline # None /\ (past => message_id # None),
              caught  |-> past,
              sent    |-> messages]
        ELSE [reached |-> deadline # None /\ (past <=> found),
              caught  |-> FALSE,
              sent    |-> IF past /\ found
                          THEN message_edit(ValueOf(message_id), "terminal")
                          ELSE IF ~past /\ ~found THEN channel_send(channel_id)
                          ELSE messages]

\* A run whose exception leaves the task: the loop of discord.ext.tasks
\* ends and is_running() is false from then on.
update_countdown_raising_uncaught(fault) ==
    LET run == raising_run(fault)
    IN  /\ is_running
        /\ run.reached
        /\ Len(run.sent) <= MaxMessages
        /\ messages' = run.sent
        /\ is_running' = run.caught
        /\ restart_pending' = FALSE
        /\ response' = Resp("update_countdown", 0,
                            IF run.caught THEN "FinalEditFailed" ELSE "Failed")
        /\ UNCHANGED <<contests, contest_entries, settings, now, end_modals,
                       deadline_modals, prize_modals>>

\* One run of the periodic task in which a call raises: the exception is
\* logged by the inner handler (HTTPException at the final edit) or by the
\* outer "except Exception", and the task stays scheduled. Settings written
\* before the failing call stay written; there are none.
update_countdown_raising(fault) ==
    LET run == raising_run(fault)
    IN  /\ is_running
        /\ run.reached
        /\ Len(run.sent) <= MaxMessages
        /\ messages' = run.sent
        /\ response' = Resp("update_countdown", 0,
                            IF run.caught THEN "FinalEditFailed" ELSE "Failed")
        /\ UNCHANGED <<contests, contest_entries, settings, now, end_modals,
                       deadline_modals, prize_modals, is_running>>
        /\ restart_pending' = FALSE

\* The tracked countdown message is fetched in the stored channel and
\* deleted (a failure is logged), and the tracked id is cleared.
clear_previous_countdown(st) ==
    LET message_id == st.countdown_message_id
        channel_id == st.countdown_channel_id
    IN  /\ settings' = [st EXCEPT !.countdown_message_id = None]
        /\ messages' =
              IF /\ message_id # None
                 /\ channel_id # None
                 /\ fetch_message(ValueOf(channel_id), ValueOf(message_id))
              THEN message_edit(ValueOf(message_id), "deleted")
              ELSE messages

\* ---------------------------------------------------------- /setdeadline
\* datetime_local is None when strptime raises ValueError.
setdeadline(interaction, datetime_local) ==
    LET result == IF ~is_contest_admin(interaction) THEN "PermissionDenied"
                  ELSE IF is_winner_picked THEN "AlreadyHasWinner"
                  ELSE IF datetime_local = None THEN "MalformedInput"
                  ELSE "DeadlineSet"
    IN  /\ settings' =
              IF result = "DeadlineSet"
              THEN [settings EXCEPT
                       !.entry_deadline = Some(ValueOf(datetime_local) + CST_OFFSET),
                       !.countdown_channel_id = Some(interaction.channel_id)]
              ELSE settings
        /\ response' = Resp("setdeadline", 0, result)
        /\ restart_pending' = IF result = "DeadlineSet" /\ is_running THEN TRUE ELSE restart_pending
        /\ UNCHANGED <<contests, contest_entries, now, end_modals, deadline_modals, prize_modals, is_running, messages>>

\* -------------------------------------------------------- /cleardeadline
\* cleardeadline without the admin check.
cleardeadline_unchecked(interaction) ==
    /\ clear_previous_countdown([settings EXCEPT !.entry_deadline = None])
    /\ response' = Resp("cleardeadline", 0, "DeadlineCleared")
    /\ UNCHANGED <<contests, contest_entries, now, end_modals, deadline_modals, prize_modals, is_running, restart_pending>>

cleardeadline(interaction) ==
    /\ IF ~is_contest_admin(interaction)
       THEN /\ response' = Resp("cleardeadline", 0, "PermissionDenied")
            /\ UNCHANGED <<settings, messages>>
       ELSE /\ clear_previous_countdown([settings EXCEPT !.entry_deadline = None])
            /\ response' = Resp("cleardeadline", 0, "DeadlineCleared")
    /\ UNCHANGED <<contests, contest_entries, now, end_modals, deadline_modals, prize_modals, is_running, restart_pending>>

\* ------------------------------------------------ DeadlineModal.on_submit
\* on_submit refusing only a deadline before the current time (< for <=).
DeadlineModal_on_submit_accepts_now(modal, deadline_input) ==
    LET result == IF deadline_input = None THEN "MalformedInput"
                  ELSE IF ValueOf(deadline_input) < now THEN "NotInFuture"
                  ELSE "DeadlineSet"
    IN  /\ modal \in deadline_modals
        /\ deadline_modals' = deadline_modals \ {modal}
        /\ IF result = "DeadlineSet"
           THEN clear_previous_countdown(
                    [settings EXCEPT !.entry_deadline = deadline_input,
                                     !.countdown_channel_id = Some(modal.channel_id)])
           ELSE UNCHANGED <<settings, messages>>
        /\ response' = Resp("newcontest_submit", 0, result)
        /\ restart_pending' = IF result = "DeadlineSet" /\ is_running THEN TRUE ELSE restart_pending
        /\ UNCHANGED <<contests, contest_entries, now, end_modals, prize_modals, is_running>>

DeadlineModal_on_submit(modal, deadline_input) ==
    LET result == IF deadline_input = None THEN "MalformedInput"
                  ELSE IF ValueOf(deadline_input) <= now THEN "NotInFuture"
                  ELSE "DeadlineSet"
    IN  /\ modal \in deadline_modals
        /\ deadline_modals' = deadline_modals \ {modal}
        /\ IF result = "DeadlineSet"
           THEN clear_previous_countdown(
                    [settings EXCEPT !.entry_deadline = deadline_input,
                                     !.countdown_channel_id = Some(modal.channel_id)])
           ELSE UNCHANGED <<settings, messages>>
        /\ response' = Resp("newcontest_submit", 0, result)
        /\ restart_pending' = IF result = "DeadlineSet" /\ is_running THEN TRUE ELSE restart_pending
        /\ UNCHANGED <<contests, contest_entries, now, end_modals, prize_modals, is_running>>

\* ------------------------------------------------------------ /setprizes
\* What an admin types into the modal: count is None when int() raises
\* ValueError, fields are the four prize inputs.
Isk == <<"x">>
Hat == <<" ", "h", "a", "t">>
Blank == <<" ">>
PrizeForms ==
    { [count |-> None,    fields |-> <<Isk, <<>>, <<>>, <<>>>>],
      [count |-> Some(0), fields |-> <<Isk, <<>>, <<>>, <<>>>>],
      [count |-> Some(1), fields |-> <<Isk, Hat, <<>>, <<>>>>],
      [count |-> Some(2), fields |-> <<Isk, Blank, <<>>, <<>>>>],
      [count |-> Some(2), fields |-> <<Isk, Hat, <<>>, <<>>>>],
      [count |-> Some(5), fields |-> <<Isk, Hat, Isk, Hat>>] }

\* The command: the admin check, then the modal is shown.
setprizes(interaction) ==
    LET result == IF ~is_contest_admin(interaction) THEN "PermissionDenied" ELSE "Modal"
    IN  /\ result = "Modal" => prize_modals < MaxPrizeModals
        /\ prize_modals' = IF result = "Modal" THEN prize_modals + 1 ELSE prize_modals
        /\ response' = Resp("setprizes", 0, result)
        /\ UNCHANGED <<contests, contest_entries, settings, now, end_modals,
                       deadline_modals, is_running, restart_pending, messages>>

\* SetPrizesModal.on_submit: the count is validated, the first n fields are
\* stripped and must be non-empty, and the list is saved under prizes_text.
SetPrizesModal_on_submit(form) ==
    LET n      == form.count
        prizes == [i \in 1..ValueOf(n) |-> strip(form.fields[i])]
        result == IF n = None THEN "MalformedInput"
                  ELSE IF ~(1 <= ValueOf(n) /\ ValueOf(n) <= 4) THEN "MalformedInput"
                  ELSE IF \E i \in 1..ValueOf(n) : prizes[i] = <<>> THEN "MalformedInput"
                  ELSE "Saved"
    IN  /\ prize_modals > 0
        /\ prize_modals' = prize_modals - 1
        /\ settings' = IF result = "Saved"
                       THEN [settings EXCEPT !.prizes_text = Some(prizes)]
                       ELSE settings
        /\ response' = Resp("setprizes_submit", 0, result)
        /\ UNCHANGED <<contests, contest_entries, now, end_modals, deadline_modals,
                       is_running, restart_pending, messages>>

\* ---------------------------------------------------------- /listentries
\* The query returning the row of the lowest user id only (LIMIT 1).
CurrentRows_first ==
    LET all == [user_id \in Users |-> <<user_id, get_user_entry(user_id)>>]
        has == SelectSeq(all, LAMBDA row : row[2] # None)
    IN  [i \in 1..(IF has = <<>> THEN 0 ELSE 1) |-> <<has[i][1], ValueOf(has[i][2])>>]

\* SELECT user_id, system_name ... WHERE contest_id = ? ORDER BY user_id
CurrentRows ==
    LET all == [user_id \in Users |-> <<user_id, get_user_entry(user_id)>>]
        has == SelectSeq(all, LAMBDA row : row[2] # None)
    IN  [i \in 1..Len(has) |-> <<has[i][1], ValueOf(has[i][2])>>]

\* The answer of /listentries: rows holds the lines "<@user_id>: system_name".
Listing(result, rows) ==
    [cmd |-> "listentries", user |-> 0, result |-> result, rows |-> rows]

listentries(interaction) ==
    LET result == IF ~is_contest_admin(interaction) THEN "PermissionDenied"
                  ELSE IF ~is_contest_open THEN "ContestClosed"
                  ELSE IF CurrentRows = <<>> THEN "NoEntries"
                  ELSE "Listed"
    IN  /\ response' = Listing(result, IF result = "Listed" THEN CurrentRows ELSE <<>>)
        /\ UNCHANGED <<contests, contest_entries, settings, now, end_modals,
                       deadline_modals, prize_modals, is_running, restart_pending, messages>>

\* -------------------------------------------------------- /conteststatus
\* The lines of the status message that depend on the store: the contest
\* id, the entries line, the deadline, the entry count, the FOB system and
\* the winner line.
StatusReport ==
    LET winner_info == get_current_winner_info
    IN  [cmd     |-> "conteststatus",
         user    |-> 0,
         result  |-> "Status",
         contest_id |-> get_current_contest_id,
         entries |-> IF ~is_contest_open /\ get_entry_deadline # None
                     THEN "DeadlinePassed"
                     ELSE IF is_contest_open THEN "Open" ELSE "Closed",
         deadline |-> get_entry_deadline,
         total   |-> get_total_entries_for_current_contest,
         fob_system |-> IF get_fob_system \in {None, Some(<<>>)}
                        THEN None ELSE get_fob_system,
         winner  |-> IF is_winner_picked
                     THEN IF winner_info[1] # None
                          THEN <<"Winner", ValueOf(winner_info[1]), winner_info[2]>>
                          ELSE <<"DetailsMissing">>
                     ELSE <<"NotDetermined">>]

\* Anyone may ask for the status; nothing is written.
conteststatus(interaction) ==
    /\ response' = StatusReport
    /\ UNCHANGED <<contests, contest_entries, settings, now, end_modals,
                   deadline_modals, prize_modals, is_running, restart_pending, messages>>

\* ------------------------------------------------------------- /backupdb
\* shutil.copy2 copies the database file next to it, or raises; the database
\* file exists since init_db created it, and is only read.
backupdb(interaction) ==
    /\ \E copied \in BOOLEAN :
          response' = Resp("backupdb", 0,
                           IF ~is_contest_admin(interaction) THEN "PermissionDenied"
                           ELSE IF copied THEN "BackupCreated" ELSE "BackupFailed")
    /\ UNCHANGED <<contests, contest_entries, settings, now, end_modals,
                   deadline_modals, prize_modals, is_running, restart_pending, messages>>

\* ---------------------------------------------------------------- clock
advance_clock ==
    /\ now < MaxTime
    /\ now' = now + 1
    /\ UNCHANGED <<contests, contest_entries, settings, end_modals, deadline_modals, prize_modals, is_running, restart_pending,
                   messages, response>>

\* ---------------------------------------------------------------- specs
\* The contest lifecycle: the handlers that write contests, contest_entries,
\* contest_open, winner_picked, fob_system and current_contest_id, called in
\* the contest channel.
Next ==
    \/ \E interaction \in ContestChannelCallers, system \in RawSystems : enter(interaction, system)
    \/ \E interaction \in ContestChannelCallers : endcontest(interaction)
    \/ \E contest_id \in 1..Len(contests), system \in RawSystems :
          EndContestModal_on_submit(contest_id, system)
    \/ \E interaction \in ContestChannelCallers : opencontest(interaction)
    \/ \E interaction \in ContestChannelCallers : newcontest(interaction)

Spec == Init /\ [][Next]_vars

\* One contest with its soft deadline: the entry validator and the open and
\* close transitions, while the clock runs and the deadline is set and cleared.
NextDeadline ==
    \/ \E interaction \in ContestChannelCallers, system \in RawSystems : enter(interaction, system)
    \/ \E interaction \in ContestChannelCallers : endcontest(interaction)
    \/ \E contest_id \in 1..Len(contests), system \in RawSystems :
          EndContestModal_on_submit(contest_id, system)
    \/ \E interaction \in ContestChannelCallers : opencontest(interaction)
    \/ \E interaction \in ContestChannelCallers, text \in SetDeadlineInputs :
          setdeadline(interaction, text)
    \/ \E interaction \in ContestChannelCallers : cleardeadline(interaction)
    \/ advance_clock

SpecDeadline == Init /\ [][NextDeadline]_vars

\* The countdown scheduler: the periodic task and the handlers that write
\* entry_deadline, countdown_message_id and countdown_channel_id.
NextCountdown ==
    \/ \E interaction \in Interactions : newcontest(interaction)
    \/ \E modal \in deadline_modals, text \in DeadlineInputs :
          DeadlineModal_on_submit(modal, text)
    \/ \E interaction \in Interactions, text \in SetDeadlineInputs :
          setdeadline(interaction, text)
    \/ \E interaction \in Interactions : cleardeadline(interaction)
    \/ update_countdown
    \/ \E fault \in Faults : update_countdown_raising(fault)
    \/ \E message_id \in 1..MaxMessages : message_deleted_by_user(message_id)
    \/ advance_clock

\* The writers of contest_open next to the operations that must leave the
\* flag alone: one admin, who is a contestant too, drives the lifecycle, the
\* deadline and the prizes while the clock and the periodic task run.
Admin == [user |-> 1, manage_guild |-> TRUE, channel_id |-> CHANNEL_ID]

NextOpenFlag ==
    \/ enter(Admin, Eha)
    \/ endcontest(Admin)
    \/ \E contest_id \in 1..Len(contests), system \in {Eha, Oto} :
          EndContestModal_on_submit(contest_id, system)
    \/ opencontest(Admin)
    \/ newcontest(Admin)
    \/ setdeadline(Admin, Some(0))
    \/ cleardeadline(Admin)
    \/ setprizes(Admin)
    \/ \E form \in PrizeForms : SetPrizesModal_on_submit(form)
    \/ update_countdown
    \/ advance_clock

SpecOpenFlag == Init /\ [][NextOpenFlag]_vars

\* Every command next to the lifecycle: an admin and a member without the
\* manage-guild permission, both contestants, call each command in the
\* contest channel.
Member == [user |-> 2, manage_guild |-> FALSE, channel_id |-> CHANNEL_ID]

Callers == {Admin, Member}

NextCommands ==
    \/ enter(Admin, Eha)
    \/ \E system \in {Eha, Oto} : enter(Member, system)
    \/ \E interaction \in Callers : endcontest(interaction)
    \/ \E contest_id \in 1..Len(contests), system \in {Eha, Oto} :
          EndContestModal_on_submit(contest_id, system)
    \/ \E interaction \in Callers : opencontest(interaction)
    \/ \E interaction \in Callers : newcontest(interaction)
    \/ \E interaction \in Callers : setdeadline(interaction, Some(0))
    \/ \E interaction \in Callers : cleardeadline(interaction)
    \/ \E interaction \in Callers : setprizes(interaction)
    \/ \E interaction \in Callers : listentries(interaction)
    \/ \E interaction \in Callers : conteststatus(interaction)
    \/ \E interaction \in Callers : backupdb(interaction)

SpecCommands == Init /\ [][NextCommands]_vars

\* The lifecycle with a second connection to the database file: entries are
\* written by this process and, between the checks and the write of a run
\* of enter, by the other connection.
NextRace ==
    \/ \E interaction \in ContestChannelCallers, system \in {Eha, Oto} :
          enter(interaction, system)
    \/ \E interaction \in ContestChannelCallers, system \in {Eha, Oto},
          other_user \in Users, other_system \in ALLOWED_FOB_SYSTEMS :
          enter_racing(interaction, system, other_user, other_system)
    \/ endcontest(Admin)
    \/ \E contest_id \in 1..Len(contests), system \in {Eha, Oto} :
          EndContestModal_on_submit(contest_id, system)
    \/ opencontest(Admin)
    \/ newcontest(Admin)

SpecRace == Init /\ [][NextRace]_vars

\* The periodic task under its schedule: tasks.loop runs update_countdown
\* again after every interval for as long as the task is running, so a run
\* of it that would change something is not put off forever.
NextTicks ==
    \/ \E interaction \in Interactions, text \in SetDeadlineInputs :
          setdeadline(interaction, text)
    \/ \E interaction \in Interactions : cleardeadline(interaction)
    \/ update_countdown
    \/ \E fault \in Faults : update_countdown_raising(fault)
    \/ \E message_id \in 1..MaxMessages : message_deleted_by_user(message_id)
    \/ advance_clock

SpecTicksFair == Init /\ [][NextTicks]_vars /\ WF_vars(update_countdown)

\* The scheduler is started on a store as init_db leaves it, or on the store
\* of a contest that user 1 entered with "Eha" and that an admin ended, with
\* FOB system "Eha" (user 1 wins) or "Oto" (nobody wins).
InitCountdown ==
    \/ Init
    \/ \E fob \in {Eha, Oto} :
          /\ contests = <<IF fob = Eha
                          THEN [winner_user_id |-> Some(1), winner_system |-> Some(Eha)]
                          ELSE NewContestRow>>
          /\ contest_entries = {[contest_id |-> 1, user_id |-> 1, system_name |-> Eha]}
          /\ settings = [current_contest_id   |-> 1,
                         contest_open         |-> "0",
                         winner_picked        |-> IF fob = Eha THEN "1" ELSE "0",
                         fob_system           |-> Some(fob),
                         entry_deadline       |-> None,
                         countdown_message_id |-> None,
                         countdown_channel_id |-> None,
                         prizes_text          |-> None]
          /\ now = 0
          /\ end_modals = <<0>>
          /\ deadline_modals = {}
          /\ prize_modals = 0
          /\ is_running = TRUE
          /\ restart_pending = FALSE
          /\ messages = <<>>
          /\ response = Resp("endcontest_submit", 0,
                             IF fob = Eha THEN "Winner" ELSE "NoWinner")

SpecCountdown == InitCountdown /\ [][NextCountdown]_vars

\* ------------------------------------------------ normalize_system_name
\* The function on its own: it is called on a name, then on its own result
\* or on a name that differs from the last argument in the case of one
\* letter or by one whitespace character next to other whitespace or at an
\* end.
Names == UNION {[1..n -> Chars] : n \in 0..MaxNameLen}

CaseVariants(name) ==
    UNION {{[name EXCEPT ![i] = upper(name[i])], [name EXCEPT ![i] = lower(name[i])]} :
              i \in 1..Len(name)}

MoreWhitespace(name) ==
    {SubSeq(name, 1, p) \o <<" ">> \o SubSeq(name, p + 1, Len(name)) :
        p \in {q \in 0..Len(name) :
                  \/ q = 0
                  \/ q = Len(name)
                  \/ isspace(name[q])
                  \/ isspace(name[q + 1])}}

LessWhitespace(name) ==
    {SubSeq(name, 1, p - 1) \o SubSeq(name, p + 1, Len(name)) :
        p \in {q \in 1..Len(name) :
                  /\ isspace(name[q])
                  /\ \/ q = 1
                     \/ q = Len(name)
                     \/ isspace(name[q - 1])
                     \/ isspace(name[q + 1])}}

Variants(name) ==
    CaseVariants(name) \cup LessWhitespace(name)
        \cup (IF Len(name) < MaxNameLen THEN MoreWhitespace(name) ELSE {})

\* A call of the function: the argument and, once it returned, the result.
Normalization(name, normalized) ==
    [cmd |-> "normalize_system_name", user |-> 0, name |-> name,
     normalized |-> normalized]

InitNormalize ==
    /\ contests = <<NewContestRow>>
    /\ contest_entries = {}
    /\ settings = [current_contest_id   |-> 1,
                   contest_open         |-> "1",
                   winner_picked        |-> "0",
                   fob_system           |-> None,
                   entry_deadline       |-> None,
                   countdown_message_id |-> None,
                   countdown_channel_id |-> None,
                   prizes_text          |-> None]
    /\ now = 0
    /\ end_modals = <<0>>
    /\ deadline_modals = {}
    /\ prize_modals = 0
    /\ is_running = TRUE
    /\ restart_pending = FALSE
    /\ messages = <<>>
    /\ \E name \in Names : response = Normalization(name, None)

normalize_call ==
    /\ response.normalized = None
    /\ response' = Normalization(response.name,
                                 Some(normalize_system_name(response.name)))
    /\ UNCHANGED <<contests, contest_entries, settings, now, end_modals,
                   deadline_modals, prize_modals, is_running, restart_pending, messages>>

normalize_result ==
    /\ response.normalized # None
    /\ response' = Normalization(ValueOf(response.normalized),
                                 Some(normalize_system_name(ValueOf(response.normalized))))
    /\ UNCHANGED <<contests, contest_entries, settings, now, end_modals,
                   deadline_modals, prize_modals, is_running, restart_pending, messages>>

normalize_variant(name) ==
    /\ response.normalized # None
    /\ name \in Variants(response.name)
    /\ response' = Normalization(name, Some(normalize_system_name(name)))
    /\ UNCHANGED <<contests, contest_entries, settings, now, end_modals,
                   deadline_modals, prize_modals, is_running, restart_pending, messages>>

NextNormalize ==
    \/ normalize_call
    \/ normalize_result
    \/ \E name \in Variants(response.name) : normalize_variant(name)

SpecNormalize == InitNormalize /\ [][NextNormalize]_vars

\* -------------------------------------------------------------- claims
\* What the claims speak of, read from the tables directly.
EntriesOf(contest_id) == {e \in contest_entries : e.contest_id = contest_id}

CurrentContest == settings.current_contest_id

\* the systems user holds in the current contest
Holding(user) == {e.system_name : e \in {x \in EntriesOf(CurrentContest) : x.user_id = user}}

\* the users holding system in the current contest
Claimants(system) ==
    {e.user_id : e \in {x \in EntriesOf(CurrentContest) : x.system_name = system}}

DeadlineElapsed ==
    settings.entry_deadline # None /\ now >= settings.entry_deadline[1]

HasWinner(contest_id) ==
    /\ contests[contest_id].winner_user_id # None
    /\ contests[contest_id].winner_system # None

\* C1: in every reachable state no two different entries of one contest have
\* the same user, and no two have the same normalized system name.
C1_UniqueEntries ==
    \A e1, e2 \in contest_entries :
        ( /\ e1.contest_id = e2.contest_id
          /\ \/ e1.user_id = e2.user_id
             \/ normalize_system_name(e1.system_name) = normalize_system_name(e2.system_name) )
        => e1 = e2

\* Both users hold an entry in contest 2 and contest 1 has entries as well.
C1_Witness ==
    /\ Cardinality(EntriesOf(2)) = 2
    /\ EntriesOf(1) # {}

\* C2 as stated: an enter by a user without an entry, for an allowed system,
\* while contest_open reads true, reports Success when nobody holds the system
\* and SystemTaken when another user holds it.
C2_AsStated ==
    [][\A interaction \in ContestChannelCallers, system \in RawSystems :
         LET name == normalize_system_name(system)
         IN  ( /\ name \in ALLOWED_FOB_SYSTEMS
               /\ settings.contest_open = "1"
               /\ Holding(interaction.user) = {}
               /\ enter(interaction, system) )
             => response'.result = IF Claimants(name) = {} THEN "Success" ELSE "SystemTaken"
      ]_vars

\* C2 (amended): an enter by a user without an entry, for an allowed system,
\* while contest_open reads true and the entry deadline is unset or not yet
\* reached, reports Success and stores the entry when nobody holds the system,
\* and reports SystemTaken and stores nothing when another user holds it: of
\* two such calls for one unclaimed system, whichever runs first succeeds and
\* the other gets SystemTaken.
C2_ExactlyOneSuccess ==
    [][\A interaction \in ContestChannelCallers, system \in RawSystems :
         LET name == normalize_system_name(system)
             user == interaction.user
         IN  ( /\ name \in ALLOWED_FOB_SYSTEMS
               /\ settings.contest_open = "1"
               /\ ~DeadlineElapsed
               /\ Holding(user) = {}
               /\ enter(interaction, system) )
             => IF Claimants(name) = {}
                THEN /\ response' = Resp("enter", user, "Success")
                     /\ contest_entries' = contest_entries \cup
                           {[contest_id |-> CurrentContest, user_id |-> user,
                             system_name |-> name]}
                ELSE /\ response' = Resp("enter", user, "SystemTaken")
                     /\ contest_entries' = contest_entries
      ]_vars

\* User 2, holding no entry, was just answered SystemTaken for the system
\* user 1 holds, in an open contest with a deadline still ahead.
C2_Witness ==
    /\ response = Resp("enter", 2, "SystemTaken")
    /\ Holding(2) = {}
    /\ Holding(1) # {}
    /\ settings.contest_open = "1"
    /\ settings.entry_deadline # None
    /\ ~DeadlineElapsed

\* C3: an enter by a user who already holds an entry in the current contest,
\* for an allowed system, while the contest is open and the deadline has not
\* passed, reports DuplicateUser and leaves the entries table as it was.
C3_DuplicateUser ==
    [][\A interaction \in ContestChannelCallers, system \in RawSystems :
         ( /\ normalize_system_name(system) \in ALLOWED_FOB_SYSTEMS
           /\ settings.contest_open = "1"
           /\ ~DeadlineElapsed
           /\ Holding(interaction.user) # {}
           /\ enter(interaction, system) )
         => /\ response' = Resp("enter", interaction.user, "DuplicateUser")
            /\ contest_entries' = contest_entries
      ]_vars

\* User 1 holds "Eha" and was just answered DuplicateUser, in an open contest
\* with a deadline still ahead, while "Oto" is free.
C3_Witness ==
    /\ response = Resp("enter", 1, "DuplicateUser")
    /\ Holding(1) = {Eha}
    /\ Claimants(Oto) = {}
    /\ settings.contest_open = "1"
    /\ settings.entry_deadline # None
    /\ ~DeadlineElapsed

\* C4: endcontest by an admin while the current contest has no entries
\* reports NoEntries and leaves the settings and the contest rows as they were.
C4_NoEntries ==
    [][\A interaction \in ContestChannelCallers :
         ( /\ interaction.manage_guild
           /\ EntriesOf(CurrentContest) = {}
           /\ endcontest(interaction) )
         => /\ response'.result = "NoEntries"
            /\ UNCHANGED <<settings, contests>>
      ]_vars

\* C5: a FOB-system submission whose normalized name is the system of an
\* entry of the modal's contest leaves contest_open false and winner_picked
\* true, and the row of that contest records the user of that entry as
\* winner_user_id and the normalized name as winner_system.
C5_WinnerRecorded ==
    [][\A contest_id \in 1..Len(contests), system \in RawSystems :
         LET name    == normalize_system_name(system)
             matches == {e \in EntriesOf(contest_id) : e.system_name = name}
         IN  ( /\ matches # {}
               /\ EndContestModal_on_submit(contest_id, system) )
             => /\ settings'.contest_open = "0"
                /\ settings'.winner_picked = "1"
                /\ \E e \in matches :
                      contests'[contest_id] = [winner_user_id |-> Some(e.user_id),
                                               winner_system  |-> Some(name)]
      ]_vars

\* Contest 1 was ended with "Oto", which user 2 had entered and user 1 had
\* not: user 2 is recorded as the winner.
C5_Witness ==
    /\ response = Resp("endcontest_submit", 0, "Winner")
    /\ [contest_id |-> 1, user_id |-> 2, system_name |-> Oto] \in contest_entries
    /\ [contest_id |-> 1, user_id |-> 1, system_name |-> Eha] \in contest_entries
    /\ contests[1] = [winner_user_id |-> Some(2), winner_system |-> Some(Oto)]
    /\ settings.winner_picked = "1"
    /\ settings.contest_open = "0"

\* C6: once a contest row has a winner_user_id and a winner_system, no step
\* changes these two fields of that row.
C6_WinnerImmutable ==
    [][\A contest_id \in 1..Len(contests) :
         HasWinner(contest_id) =>
            /\ contests'[contest_id].winner_user_id = contests[contest_id].winner_user_id
            /\ contests'[contest_id].winner_system = contests[contest_id].winner_system
      ]_vars

\* C7: a FOB-system submission whose normalized name is allowed and is the
\* system of no entry of the modal's contest leaves contest_open false,
\* fob_system the submitted name, winner_picked false and the winner_user_id
\* of that contest's row null.
C7_NoMatchNoWinner ==
    [][\A contest_id \in 1..Len(contests), system \in RawSystems :
         LET name == normalize_system_name(system)
         IN  ( /\ name \in ALLOWED_FOB_SYSTEMS
               /\ \A e \in EntriesOf(contest_id) : e.system_name # name
               /\ EndContestModal_on_submit(contest_id, system) )
             => /\ settings'.contest_open = "0"
                /\ settings'.fob_system = Some(name)
                /\ settings'.winner_picked = "0"
                /\ contests'[contest_id].winner_user_id = None
      ]_vars

\* C8: in every reachable state, winner_picked = true implies that the row of
\* the current contest has a winner_user_id and a winner_system.
C8_PickedImpliesWinner ==
    settings.winner_picked = "1" => HasWinner(CurrentContest)

\* C9: newcontest by an admin reports that the contest was started, whatever
\* the lifecycle state; it adds one contest row, whose id is greater than
\* every id there was, keeps the earlier rows, and makes current_contest_id
\* that new id.
C9_NewContestSucceeds ==
    [][\A interaction \in ContestChannelCallers :
         ( /\ interaction.manage_guild
           /\ newcontest(interaction) )
         => /\ response' = Resp("newcontest", 0, "Started")
            /\ (DOMAIN contests') \ (DOMAIN contests) = {settings'.current_contest_id}
            /\ \A contest_id \in DOMAIN contests :
                  /\ contest_id < settings'.current_contest_id
                  /\ contests'[contest_id] = contests[contest_id]
      ]_vars

\* newcontest was just run on a contest that had a winner picked: contest 2
\* is current and contest 1 keeps its winner.
C9_Witness ==
    /\ response = Resp("newcontest", 0, "Started")
    /\ settings.current_contest_id = 2
    /\ Len(contests) = 2
    /\ HasWinner(1)

\* C10: right after a newcontest that started a contest, contest_open is
\* true, winner_picked is false, fob_system is the empty string,
\* entry_deadline, countdown_message_id and countdown_channel_id are unset,
\* and the new current contest has no entries and no winner.
C10_NewContestReset ==
    [][\A interaction \in Interactions :
         ( /\ response'.result = "Started"
           /\ newcontest(interaction) )
         => /\ settings'.contest_open = "1"
            /\ settings'.winner_picked = "0"
            /\ settings'.fob_system = Some(<<>>)
            /\ settings'.entry_deadline = None
            /\ settings'.countdown_message_id = None
            /\ settings'.countdown_channel_id = None
            /\ \A e \in contest_entries' : e.contest_id # settings'.current_contest_id
            /\ contests'[settings'.current_contest_id] = NewContestRow
      ]_vars

\* newcontest was just run on a closed contest that had an entry, a FOB
\* system, a deadline and a countdown message still counting in the channel.
C10_Witness ==
    /\ response = Resp("newcontest", 0, "Started")
    /\ EntriesOf(1) # {}
    /\ \E message_id \in 1..Len(messages) : messages[message_id].form = "live"
    /\ settings.countdown_message_id = None
    /\ settings.entry_deadline = None

\* C11: no step inserts, changes or deletes an entry of a contest that is
\* not the current contest, before or after the step: the entries of every
\* earlier contest stay as newcontest left them.
C11_PastEntriesImmutable ==
    [][\A contest_id \in 1..Len(contests') :
         (contest_id # CurrentContest \/ contest_id # CurrentContest')
         => {e \in contest_entries' : e.contest_id = contest_id} = EntriesOf(contest_id)
      ]_vars

\* User 1 entered "Eha" in contest 1 and has just entered "Eha" again in
\* contest 2; contest 1 still holds its entry.
C11_Witness ==
    /\ response = Resp("enter", 1, "Success")
    /\ CurrentContest = 2
    /\ EntriesOf(1) = {[contest_id |-> 1, user_id |-> 1, system_name |-> Eha]}
    /\ [contest_id |-> 2, user_id |-> 1, system_name |-> Eha] \in contest_entries

\* C12: whenever a FOB-system submission applies the close (it sets
\* contest_open to false and records fob_system), the current contest is at
\* that moment open, has no winner picked and has at least one entry.
C12_CloseOnlyWhenOpen ==
    [][\A contest_id \in 1..Len(contests), system \in RawSystems :
         ( /\ normalize_system_name(system) \in ALLOWED_FOB_SYSTEMS
           /\ EndContestModal_on_submit(contest_id, system) )
         => /\ settings.contest_open = "1"
            /\ settings.winner_picked = "0"
            /\ EntriesOf(CurrentContest) # {}
      ]_vars

\* The earliest failing check of the pipeline for user and normalized name,
\* read from the tables, or "Success" when none fails.
FirstFailingCheck(user, name) ==
    IF name \notin ALLOWED_FOB_SYSTEMS THEN "InvalidSystem"
    ELSE IF settings.contest_open # "1" THEN "ContestClosed"
    ELSE IF DeadlineElapsed THEN "DeadlinePassed"
    ELSE IF Holding(user) # {} THEN "DuplicateUser"
    ELSE IF Claimants(name) # {} THEN "SystemTaken"
    ELSE "Success"

\* C13: every enter reports the earliest failing check in the order
\* InvalidSystem, ContestClosed, DeadlinePassed, DuplicateUser, SystemTaken,
\* and stores the entry exactly when no check fails.
C13_FirstFailingCheck ==
    [][\A interaction \in ContestChannelCallers, system \in RawSystems :
         LET name     == normalize_system_name(system)
             user     == interaction.user
             expected == FirstFailingCheck(user, name)
         IN  enter(interaction, system)
             => /\ response' = Resp("enter", user, expected)
                /\ contest_entries' =
                      IF expected = "Success"
                      THEN contest_entries \cup
                              {[contest_id |-> CurrentContest, user_id |-> user,
                                system_name |-> name]}
                      ELSE contest_entries
      ]_vars

\* User 1, who holds an entry, was answered ContestClosed in a closed contest
\* whose deadline has passed as well: three checks fail, the earliest is
\* reported.
C13_Witness ==
    /\ response = Resp("enter", 1, "ContestClosed")
    /\ settings.contest_open = "0"
    /\ DeadlineElapsed
    /\ Holding(1) # {}

\* C14: while entry_deadline is set and the time is at or past it, every
\* enter with an allowed system is rejected and leaves the entries table as
\* it was; while contest_open still reads true the reason is DeadlinePassed.
C14_DeadlineRejects ==
    [][\A interaction \in ContestChannelCallers, system \in RawSystems :
         ( /\ DeadlineElapsed
           /\ normalize_system_name(system) \in ALLOWED_FOB_SYSTEMS
           /\ enter(interaction, system) )
         => /\ response'.result \in {"ContestClosed", "DeadlinePassed"}
            /\ settings.contest_open = "1" => response'.result = "DeadlinePassed"
            /\ contest_entries' = contest_entries
      ]_vars

\* User 2, who holds no entry, asked for the free system "Oto" at exactly
\* the deadline, in a contest that reads open, and was answered DeadlinePassed.
C14_Witness ==
    /\ response = Resp("enter", 2, "DeadlinePassed")
    /\ settings.contest_open = "1"
    /\ settings.entry_deadline = Some(now)
    /\ Holding(2) = {}
    /\ Claimants(Oto) = {}
    /\ Claimants(Eha) = {}

\* C15: a step that changes contest_open is a FOB-system submission, an
\* opencontest or a newcontest; countdown ticks, the passing of time, enter,
\* the endcontest command, setdeadline, cleardeadline and setprizes with its
\* submission leave contest_open as it was.
C15_OpenFlagWriters ==
    [][ /\ settings'.contest_open # settings.contest_open
           => \/ \E contest_id \in 1..Len(contests), system \in {Eha, Oto} :
                    EndContestModal_on_submit(contest_id, system)
              \/ opencontest(Admin)
              \/ newcontest(Admin)
        /\ ( \/ update_countdown
             \/ advance_clock
             \/ enter(Admin, Eha)
             \/ endcontest(Admin)
             \/ setdeadline(Admin, Some(0))
             \/ cleardeadline(Admin)
             \/ setprizes(Admin)
             \/ \E form \in PrizeForms : SetPrizesModal_on_submit(form) )
           => settings'.contest_open = settings.contest_open
      ]_vars

\* The periodic task has just edited the countdown message to its terminal
\* form, the deadline having passed, and the contest still reads open.
C15_Witness ==
    /\ response = Resp("update_countdown", 0, "Terminal")
    /\ DeadlineElapsed
    /\ settings.contest_open = "1"
    /\ settings.prizes_text # None

\* C16: opencontest by an admin reports the reopening exactly when the
\* contest is closed and no winner is picked; it then sets contest_open to
\* true and changes no other setting, no contest row and no entry. When it
\* refuses (winner already picked, or already open) the store is unchanged.
C16_OpenContest ==
    [][\A interaction \in ContestChannelCallers :
         ( /\ interaction.manage_guild
           /\ opencontest(interaction) )
         => LET succeeds == settings.contest_open = "0" /\ settings.winner_picked = "0"
            IN  /\ (response'.result = "Reopened") <=> succeeds
                /\ contests' = contests
                /\ contest_entries' = contest_entries
                /\ IF succeeds
                   THEN settings' = [settings EXCEPT !.contest_open = "1"]
                   ELSE /\ settings' = settings
                        /\ response'.result =
                              IF settings.winner_picked = "1"
                              THEN "AlreadyHasWinner" ELSE "AlreadyOpen"
      ]_vars

\* A contest with an entry and a deadline, closed with the FOB system "Oto"
\* that nobody guessed, has just been reopened: all of these are still there.
C16_Witness ==
    /\ response = Resp("opencontest", 0, "Reopened")
    /\ settings.contest_open = "1"
    /\ settings.fob_system = Some(Oto)
    /\ settings.entry_deadline # None
    /\ EntriesOf(CurrentContest) # {}

\* name is on the allow-list and is its own normal form
NormalizedAllowed(name) ==
    /\ name \in ALLOWED_FOB_SYSTEMS
    /\ normalize_system_name(name) = name

\* C17: in every reachable state the system_name of every stored entry is a
\* normalized member of the allow-list, and so is fob_system unless it is
\* unset or the empty string.
C17_StoredNamesAllowed ==
    /\ \A e \in contest_entries : NormalizedAllowed(e.system_name)
    /\ settings.fob_system \notin {None, Some(<<>>)}
          => NormalizedAllowed(settings.fob_system[1])

\* Two entries are stored and the contest was ended with the FOB system "Oto".
C17_Witness ==
    /\ Cardinality(contest_entries) >= 2
    /\ settings.fob_system = Some(Oto)

\* C18: a countdown tick at or past the deadline with a tracked message id
\* leaves that message in the terminal form and the tracked id cleared; a
\* tick at or past the deadline without a tracked id changes no message and
\* no setting.
C18_TerminalTick ==
    [][( /\ DeadlineElapsed
         /\ update_countdown )
       => IF settings.countdown_message_id # None
          THEN /\ messages'[settings.countdown_message_id[1]].form = "terminal"
               /\ settings'.countdown_message_id = None
          ELSE /\ messages' = messages
               /\ settings' = settings
      ]_vars

\* The message with this id was sent and has not been deleted.
MessageExists(message_id) ==
    /\ message_id \in 1..Len(messages)
    /\ messages[message_id].form # "deleted"

\* C19: a countdown tick before the deadline with a tracked id whose message
\* still exists edits that message, posts none and keeps the tracked id; with
\* a tracked id whose message is gone, or with no tracked id, it posts exactly
\* one new message and tracks its id.
C19_EditInPlace ==
    [][( /\ settings.entry_deadline # None
         /\ ~DeadlineElapsed
         /\ update_countdown )
       => IF /\ settings.countdown_message_id # None
             /\ MessageExists(settings.countdown_message_id[1])
          THEN /\ Len(messages') = Len(messages)
               /\ settings'.countdown_message_id = settings.countdown_message_id
          ELSE /\ Len(messages') = Len(messages) + 1
               /\ settings'.countdown_message_id = Some(Len(messages'))
      ]_vars

\* C20: a run of the periodic task in which a settings access or a Discord
\* request raises leaves the task scheduled, so that the next tick runs, and
\* leaves the settings as they were persisted before the run.
C20_FailedTickKeepsSchedule ==
    [][\A fault \in Faults :
         update_countdown_raising(fault)
         => /\ is_running'
            /\ settings' = settings
      ]_vars

\* A tick has just failed after sending a message whose id it could not
\* store: the message is in the channel, no id is tracked, the deadline is
\* still ahead and the task is still scheduled.
C20_Witness ==
    /\ response = Resp("update_countdown", 0, "Failed")
    /\ is_running
    /\ settings.entry_deadline # None
    /\ ~DeadlineElapsed
    /\ settings.countdown_message_id = None
    /\ Len(messages) = 1
    /\ messages[1].form = "live"

\* C21: every admin command (setprizes, endcontest, opencontest, newcontest,
\* setdeadline, cleardeadline, listentries, backupdb) called by a caller
\* without admin rights answers with the no-permission reason and leaves the
\* three tables of the store as they were, whatever the lifecycle state.
C21_NonAdminRejected ==
    [][\A interaction \in Callers :
          ( /\ ~is_contest_admin(interaction)
            /\ \/ setprizes(interaction)
               \/ endcontest(interaction)
               \/ opencontest(interaction)
               \/ newcontest(interaction)
               \/ \E text \in SetDeadlineInputs : setdeadline(interaction, text)
               \/ cleardeadline(interaction)
               \/ listentries(interaction)
               \/ backupdb(interaction) )
          => /\ response'.result = "PermissionDenied"
             /\ UNCHANGED <<contests, contest_entries, settings>>]_vars

\* A member was refused /cleardeadline on a contest that has its winner and
\* still has a deadline set.
C21_Witness ==
    /\ response = Resp("cleardeadline", 0, "PermissionDenied")
    /\ is_winner_picked
    /\ get_entry_deadline # None
    /\ CurrentEntries # {}

\* C22 as stated: for every input, once the name has been normalized,
\* normalizing the result again, or normalizing a name that differs from the
\* input in the case of a letter or in one whitespace character beside other
\* whitespace or at an end, returns the same result.
C22_AsStated ==
    [][response.normalized # None
          => response'.normalized = response.normalized]_vars

\* C22: normalize is idempotent, and inputs that differ only in letter case
\* or in the amount of whitespace normalize to the same name, for every
\* input made of ASCII characters.
C22_NormalizeStable ==
    [][( /\ response.normalized # None
         /\ \A i \in 1..Len(response.name) : response.name[i] \in AsciiChars )
          => response'.normalized = response.normalized]_vars

\* The result "E H" was normalized again after it had been computed from a
\* name with other case and more whitespace.
C22_Witness ==
    /\ response.cmd = "normalize_system_name"
    /\ response.name = <<"E", " ", "H">>
    /\ response.normalized = Some(<<"E", " ", "H">>)

\* C23: whenever winner_picked is true, conteststatus reports the winner user
\* and system recorded for the current contest, and once it reports a winner
\* it reports the same user and system after every step that keeps the
\* current contest, that is until the next newcontest.
C23_StatusReportsWinner ==
    [][/\ is_winner_picked =>
             /\ HasWinner(CurrentContest)
             /\ StatusReport.winner =
                   <<"Winner", ValueOf(contests[CurrentContest].winner_user_id),
                     contests[CurrentContest].winner_system>>
       /\ ( /\ is_winner_picked
            /\ StatusReport.winner[1] = "Winner"
            /\ get_current_contest_id' = get_current_contest_id )
          => StatusReport'.winner = StatusReport.winner
      ]_vars

\* C24: every successful setdeadline and every cleardeadline by an admin
\* forces an immediate out-of-cycle countdown tick: when the handler has run,
\* a restart of the periodic task is pending, whose first run is the tick.
C24_DeadlineChangeForcesTick ==
    [][\A interaction \in Interactions :
          ( /\ is_contest_admin(interaction)
            /\ \/ /\ \E text \in SetDeadlineInputs : setdeadline(interaction, text)
                  /\ response'.result = "DeadlineSet"
               \/ cleardeadline(interaction) )
          => restart_pending'
      ]_vars

C26_WinnerPickedTerminal ==
    [][( /\ is_winner_picked
         /\ get_current_contest_id' = get_current_contest_id )
       => /\ settings'.contest_open = "0"
          /\ settings'.winner_picked = "1"
          /\ EntriesOf(CurrentContest)' = EntriesOf(CurrentContest)
          /\ ( \/ \E interaction \in Callers :
                     \/ \E system \in {Eha, Oto} : enter(interaction, system)
                     \/ opencontest(interaction)
                     \/ endcontest(interaction)
               \/ \E contest_id \in 1..Len(contests), system \in {Eha, Oto} :
                     EndContestModal_on_submit(contest_id, system) )
             => UNCHANGED <<contests, contest_entries, settings>>
      ]_vars

\* C27: at any time every countdown message the bot has posted is the one
\* tracked by countdown_message_id, or has been deleted, or has been edited
\* to the terminal form, so that at most one message in live form exists.
C27_OneLiveCountdown ==
    \A message_id \in 1..Len(messages) :
        messages[message_id].form = "live"
            => get_countdown_message_id = Some(message_id)

\* C28: when the write of enter is rejected by a uniqueness constraint of the
\* table, because another write landed between the checks and the write,
\* enter answers DuplicateUser or SystemTaken and leaves the table as the
\* other write left it; the rejection is not an unhandled storage error.
C28_RejectedWriteReported ==
    [][\A interaction \in ContestChannelCallers, system \in {Eha, Oto},
          other_user \in Users, other_system \in ALLOWED_FOB_SYSTEMS :
          ( /\ enter_racing(interaction, system, other_user, other_system)
            /\ \E e \in contest_entries' :
                  /\ e.contest_id = get_current_contest_id
                  /\ e.system_name = normalize_system_name(system)
                  /\ e.user_id # interaction.user )
          => /\ response'.result \in {"DuplicateUser", "SystemTaken"}
             /\ contest_entries' =
                   upsert_row(contest_entries, get_current_contest_id,
                              other_user, other_system)
      ]_vars

\* C29: once the deadline has elapsed with a tracked message id present,
\* then under fair scheduling of ticks the tracked id is eventually cleared
\* or a new deadline is set, also when the tracked message has been deleted
\* or cannot be edited (after which no tick touches a message or the store).
C29_TrackedIdCleared ==
    (DeadlineElapsed /\ get_countdown_message_id # None)
        ~> (get_countdown_message_id = None \/ ~DeadlineElapsed)

\* C30: when a FOB-system submission selects the winner, exactly one entry
\* of the contest has the submitted system, and the winner recorded is the
\* user of that entry: the winner is determined by the stored entries and
\* the submitted system, so two runs from the same store with the same
\* system record the same winner.
C30_WinnerDetermined ==
    [][\A contest_id \in 1..Len(contests), system \in {Eha, Oto} :
         LET name    == normalize_system_name(system)
             matches == {e \in EntriesOf(contest_id) : e.system_name = name}
         IN  ( /\ EndContestModal_on_submit(contest_id, system)
               /\ response'.result = "Winner" )
             => /\ Cardinality(matches) = 1
                /\ \A e \in matches :
                      contests'[contest_id].winner_user_id = Some(e.user_id)
      ]_vars

\* The contest that user 2 entered with "Oto" after the write of user 1 for
\* "Eha" had landed was ended with "Oto": user 2 is the winner.
C30_Witness ==
    /\ response = Resp("endcontest_submit", 0, "Winner")
    /\ EntriesOf(1) = {[contest_id |-> 1, user_id |-> 1, system_name |-> Eha],
                       [contest_id |-> 1, user_id |-> 2, system_name |-> Oto]}
    /\ contests[1] = [winner_user_id |-> Some(2), winner_system |-> Some(Oto)]

\* C31: an elapsed entry deadline does not block endcontest: at a time at or
\* past entry_deadline, with the contest open, no winner picked and at least
\* one entry, the command of an admin shows the FOB-system modal, and a
\* submission for the current contest with an allowed name closes the
\* contest and records as winner a user whose entry has that name (no
\* winner when no entry has it).
C31_DeadlineDoesNotBlockEnd ==
    [][( /\ DeadlineElapsed
         /\ is_contest_open
         /\ ~is_winner_picked
         /\ CurrentEntries # {} )
       => /\ \A interaction \in ContestChannelCallers :
                ( /\ is_contest_admin(interaction)
                  /\ endcontest(interaction) )
                => response'.result = "Modal"
          /\ \A system \in RawSystems :
                LET name    == normalize_system_name(system)
                    matches == {e \in CurrentEntries : e.system_name = name}
                IN  ( /\ name \in ALLOWED_FOB_SYSTEMS
                      /\ EndContestModal_on_submit(CurrentContest, system) )
                    => /\ settings'.contest_open = "0"
                       /\ IF matches = {}
                          THEN settings'.winner_picked = "0"
                          ELSE /\ settings'.winner_picked = "1"
                               /\ \E e \in matches :
                                     contests'[CurrentContest] =
                                        [winner_user_id |-> Some(e.user_id),
                                         winner_system  |-> Some(name)]
      ]_vars

\* The contest was ended, and user 1 recorded as the winner, at a time past
\* the entry deadline.
C31_Witness ==
    /\ response = Resp("endcontest_submit", 0, "Winner")
    /\ DeadlineElapsed
    /\ now > ValueOf(get_entry_deadline)
    /\ contests[1] = [winner_user_id |-> Some(1), winner_system |-> Some(Eha)]
    /\ settings.contest_open = "0"

\* C32: a FOB-system submission whose normalized name is not in the
\* allow-list is answered with the invalid-system reason and changes
\* nothing in the store: contest_open, fob_system, winner_picked, the
\* contest rows and the entries are as before, so an open contest still
\* accepts entries.
C32_InvalidSubmissionNoChange ==
    [][\A contest_id \in 1..Len(contests), system \in RawSystems :
         ( /\ normalize_system_name(system) \notin ALLOWED_FOB_SYSTEMS
           /\ EndContestModal_on_submit(contest_id, system) )
         => /\ response'.result = "InvalidSystem"
            /\ UNCHANGED <<contests, contest_entries, settings>>
      ]_vars

\* A submission was refused for its name and the contest, which has an
\* entry, is still open and without FOB system.
C32_Witness ==
    /\ response = Resp("endcontest_submit", 0, "InvalidSystem")
    /\ is_contest_open
    /\ ~is_winner_picked
    /\ get_fob_system = None
    /\ CurrentEntries # {}

\* C33: in every reachable state current_contest_id is the id of a row of
\* the contests table, and of the row with the largest id; no step removes
\* a contest row, and a row added by a step gets an id greater than every id
\* there was.
C33_CurrentIsLatest ==
    /\ [](/\ get_current_contest_id \in DOMAIN contests
          /\ \A contest_id \in DOMAIN contests : contest_id <= get_current_contest_id)
    /\ [][/\ DOMAIN contests \subseteq DOMAIN contests'
          /\ \A new_id \in (DOMAIN contests') \ DOMAIN contests :
                \A contest_id \in DOMAIN contests : new_id > contest_id
         ]_vars

\* A second contest was started and is the current one; the row of the
\* first contest, with its winner, is still there.
C33_Witness ==
    /\ Len(contests) = 2
    /\ get_current_contest_id = 2
    /\ HasWinner(1)
    /\ response = Resp("newcontest", 0, "Started")

\* C34: when the deadline typed into the deadline step of newcontest cannot
\* be parsed or is not strictly in the future, the step is refused and
\* writes nothing: entry_deadline and the countdown channel are as they
\* were (unset when newcontest left them unset), and the current contest,
\* its row and its open flag are untouched; the new contest is not undone.
C34_BadDeadlineKeepsContest ==
    [][\A modal \in deadline_modals, deadline_input \in DeadlineInputs :
         ( /\ \/ deadline_input = None
              \/ ValueOf(deadline_input) <= now
           /\ DeadlineModal_on_submit(modal, deadline_input) )
         => /\ response'.result \in {"MalformedInput", "NotInFuture"}
            /\ UNCHANGED <<contests, contest_entries, settings, messages>>
      ]_vars

\* The deadline step of contest 2 was refused for a deadline that is not in
\* the future: contest 2 is current and open, without deadline and without
\* countdown channel.
C34_Witness ==
    /\ response = Resp("newcontest_submit", 0, "NotInFuture")
    /\ get_current_contest_id = 2
    /\ Len(contests) = 2
    /\ is_contest_open
    /\ get_entry_deadline = None
    /\ get_countdown_channel_id = None

\* C35: in every reachable state winner_picked = true implies
\* contest_open = false.
C35_PickedImpliesClosed ==
    is_winner_picked => ~is_contest_open

\* An admin tried to reopen the contest that has its winner and was
\* refused: the contest is closed.
C35_Witness ==
    /\ response = Resp("opencontest", 0, "AlreadyHasWinner")
    /\ is_winner_picked
    /\ ~is_contest_open

\* C36: for every contest row, winner_user_id and winner_system are both
\* null or both set, and when they are set the entries table holds the
\* entry of that contest, that user and that system.
C36_WinnerHoldsEntry ==
    \A contest_id \in DOMAIN contests :
        LET row == contests[contest_id]
        IN  /\ row.winner_user_id = None <=> row.winner_system = None
            /\ row.winner_user_id # None =>
                  [contest_id  |-> contest_id,
                   user_id     |-> ValueOf(row.winner_user_id),
                   system_name |-> ValueOf(row.winner_system)] \in contest_entries

\* The winner of contest 1 was recorded by a submission made after contest
\* 2 had been started and entered; the winner's entry is in contest 1.
C36_Witness ==
    /\ response = Resp("endcontest_submit", 0, "Winner")
    /\ get_current_contest_id = 2
    /\ contests[1] = [winner_user_id |-> Some(2), winner_system |-> Some(Oto)]
    /\ contests[2] = NewContestRow
    /\ [contest_id |-> 1, user_id |-> 2, system_name |-> Oto] \in contest_entries
    /\ [contest_id |-> 2, user_id |-> 2, system_name |-> Eha] \in contest_entries

\* The store across restarts: the process is restarted at any point of the
\* lifecycle of contests with a deadline and a countdown message.
NextRestart ==
    \/ enter(Member, Eha)
    \/ endcontest(Admin)
    \/ \E contest_id \in 1..Len(contests), system \in {Eha, Oto} :
          EndContestModal_on_submit(contest_id, system)
    \/ newcontest(Admin)
    \/ \E modal \in deadline_modals, text \in DeadlineInputs :
          DeadlineModal_on_submit(modal, text)
    \/ setdeadline(Admin, Some(0))
    \/ update_countdown
    \/ init_db

SpecRestart == Init /\ [][NextRestart]_vars

\* C37: a restart, init_db running on a store that has current_contest_id,
\* creates no contest row and leaves current_contest_id, contest_open,
\* winner_picked, fob_system, entry_deadline, the countdown ids and all
\* entries as they were.
C37_RestartChangesNothing ==
    [][response' = Resp("init_db", 0, "ok") =>
          /\ contests' = contests
          /\ contest_entries' = contest_entries
          /\ \A key \in {"current_contest_id", "contest_open", "winner_picked",
                         "fob_system", "entry_deadline", "countdown_message_id",
                         "countdown_channel_id"} :
                settings'[key] = settings[key]]_vars

\* The process has just been restarted during the second contest, which
\* has a deadline and a countdown message, after the first contest was
\* entered and ended with a winner.
C37_Witness ==
    /\ response = Resp("init_db", 0, "ok")
    /\ Len(contests) = 2
    /\ get_current_contest_id = 2
    /\ contests[1].winner_user_id = Some(2)
    /\ contest_entries # {}
    /\ get_entry_deadline # None
    /\ get_countdown_message_id # None
    /\ get_countdown_channel_id # None
    /\ get_fob_system = Some(<<>>)

\* Storage failures in newcontest: contests with a deadline and a countdown
\* message are started, entered and ended while any statement of a
\* newcontest transaction may fail.
NextStorageFaults ==
    \/ enter(Member, Eha)
    \/ endcontest(Admin)
    \/ \E contest_id \in 1..Len(contests), system \in {Eha, Oto} :
          EndContestModal_on_submit(contest_id, system)
    \/ newcontest(Admin)
    \/ \E failing \in 1..NewContestStatements : newcontest_failing(Admin, failing)
    \/ setdeadline(Admin, Some(0))
    \/ update_countdown

SpecStorageFaults == Init /\ [][NextStorageFaults]_vars

\* C38: when a statement of newcontest raises a storage error, the
\* contests table, current_contest_id, contest_open, winner_picked,
\* fob_system, entry_deadline and the countdown ids are as before the
\* command.
C38_NewContestAllOrNothing ==
    [][response' = Resp("newcontest", 0, "DatabaseError") =>
          /\ contests' = contests
          /\ \A key \in {"current_contest_id", "contest_open", "winner_picked",
                         "fob_system", "entry_deadline", "countdown_message_id",
                         "countdown_channel_id"} :
                settings'[key] = settings[key]]_vars

\* newcontest has just failed on a contest that was ended with a winner and
\* has a FOB system, a deadline and a countdown message: every statement of
\* the transaction would have changed the store.
C38_Witness ==
    /\ response = Resp("newcontest", 0, "DatabaseError")
    /\ Len(contests) = 1
    /\ is_winner_picked
    /\ ~is_contest_open
    /\ get_fob_system = Some(Eha)
    /\ get_entry_deadline # None
    /\ get_countdown_message_id # None
    /\ get_countdown_channel_id # None

\* C39: whenever entry_deadline is written, by setdeadline or by the
\* deadline step of newcontest, the written deadline is strictly later than
\* the current time, so that entries are not past the deadline at the
\* moment it is set.
C39_WrittenDeadlineInFuture ==
    [][/\ response' \in {Resp("setdeadline", 0, "DeadlineSet"),
                         Resp("newcontest_submit", 0, "DeadlineSet")}
       /\ now' = now
       /\ \/ response' # response
          \/ settings' # settings
          \/ deadline_modals' # deadline_modals
       =>
          /\ settings'.entry_deadline # None
          /\ ValueOf(settings'.entry_deadline) > now'
          /\ ~is_past_deadline']_vars

====
